---- MODULE Spec2Model ----
(***************************************************************************)
(* Model of the trading-signal guest (guests/trading-signal/src/main.rs)   *)
(* and of the receiving side of the application (apps/src/main.rs).        *)
(*                                                                         *)
(* Numbers wider than TLC's integers are kept as the machine keeps them:   *)
(* a u64 is a sequence of 8 base-256 digits and a U256 a sequence of 32,   *)
(* least significant digit first (ruint's limb order).  Byte strings on    *)
(* the wire (the journal, the fulfillment data) are sequences of bytes in  *)
(* wire order.  The small signed values of the regression are Integers.    *)
(***************************************************************************)
EXTENDS Integers, Sequences, FiniteSets, TLC

\* ------------------------------------------------------------------------
\* Fixed-width unsigned arithmetic on digit sequences (least significant first)
\* ------------------------------------------------------------------------

Zeros(n) == [i \in 1..n |-> 0]

Reverse(s) == [i \in 1..Len(s) |-> s[Len(s) + 1 - i]]

IsZero(x) == \A i \in 1..Len(x) : x[i] = 0

\* The natural n as a number of len digits (n reduced modulo 256^len).
RECURSIVE NatToNum(_, _)
NatToNum(n, len) ==
    IF len = 0 THEN <<>> ELSE <<n % 256>> \o NatToNum(n \div 256, len - 1)

\* x * k + carry for a small k, as a number two digits longer than x.
RECURSIVE MulSmall(_, _, _)
MulSmall(x, k, carry) ==
    IF x = <<>> THEN <<carry % 256, carry \div 256>>
    ELSE LET t == Head(x) * k + carry
         IN  <<t % 256>> \o MulSmall(Tail(x), k, t \div 256)

\* x + y + carry for numbers of equal length, one digit longer than x.
RECURSIVE AddNum(_, _, _)
AddNum(x, y, carry) ==
    IF x = <<>> THEN <<carry>>
    ELSE LET t == Head(x) + Head(y) + carry
         IN  <<t % 256>> \o AddNum(Tail(x), Tail(y), t \div 256)

\* The exact product of two unsigned numbers, Len(x) + Len(y) digits long.
RECURSIVE MulNum(_, _)
MulNum(x, y) ==
    IF y = <<>> THEN Zeros(Len(x))
    ELSE LET low  == MulSmall(x, Head(y), 0) \o Zeros(Len(y) - 1)
             high == <<0>> \o MulNum(x, Tail(y)) \o <<0>>
         IN  SubSeq(AddNum(low, high, 0), 1, Len(x) + Len(y))

\* Quotient and remainder of x by a small d > 0 (long division from the top digit).
RECURSIVE DivSmall(_, _)
DivSmall(x, d) ==
    IF x = <<>> THEN [q |-> <<>>, r |-> 0]
    ELSE LET h   == DivSmall(Tail(x), d)
             cur == h.r * 256 + Head(x)
         IN  [q |-> <<cur \div d>> \o h.q, r |-> cur % d]

\* x < y for numbers of equal length.
RECURSIVE LtNum(_, _)
LtNum(x, y) ==
    IF x = <<>> THEN FALSE
    ELSE IF Tail(x) = Tail(y) THEN Head(x) < Head(y)
    ELSE LtNum(Tail(x), Tail(y))

GtNum(x, y) == LtNum(y, x)

LeNum(x, y) == ~LtNum(y, x)

\* x widened (or cut) to len digits.
Resize(x, len) ==
    IF Len(x) >= len THEN SubSeq(x, 1, len) ELSE x \o Zeros(len - Len(x))

\* m * 10^e as a u64 (for writing the source's decimal literals).
RECURSIVE Sci(_, _)
Sci(m, e) ==
    IF e = 0 THEN NatToNum(m, 8)
    ELSE SubSeq(MulSmall(Sci(m, e - 1), 10, 0), 1, 8)

\* Rust's integer division on signed values truncates toward zero.
TruncDiv(a, b) ==
    LET abs(v) == IF v < 0 THEN -v ELSE v
        q == abs(a) \div abs(b)
    IN  IF (a < 0) = (b < 0) THEN q ELSE -q

\* `v as u64` for an i64 v: two's complement for the negative values.
I64AsU64(v) ==
    IF v >= 0 THEN NatToNum(v, 8)
    ELSE [i \in 1..8 |-> 255 - NatToNum(-v - 1, 8)[i]]

\* U256::from(u64): the low limb is the value, the other three are zero.
U256From(x) == Resize(x, 32)

\* U256::as_limbs()[0]: the low 64 bits.
AsLimbs0(u) == SubSeq(u, 1, 8)

\* `x as u8`: the low 8 bits.
AsU8(x) == x[1]

\* Variant of ToBeBytes32: the bytes in limb order, least significant first
\* (to_le_bytes in the place of to_be_bytes).
ToLeBytes32(u) == Resize(u, 32)

\* U256::to_be_bytes::<32>(): the 32 bytes, most significant first.
ToBeBytes32(u) == Reverse(Resize(u, 32))

\* A 32-byte big-endian word read as a U256.
FromBeBytes32(w) == Reverse(w)

\* ------------------------------------------------------------------------
\* The guest: guests/trading-signal/src/main.rs
\* ------------------------------------------------------------------------

\* Historical price data (30 days): <<day_index, usd_price_per_eth>>.
PRICE_HISTORY ==
    << <<1, 3200>>,  <<2, 3215>>,  <<3, 3189>>,  <<4, 3221>>,  <<5, 3254>>,
       <<6, 3278>>,  <<7, 3242>>,  <<8, 3291>>,  <<9, 3315>>,  <<10, 3287>>,
       <<11, 3324>>, <<12, 3352>>, <<13, 3389>>, <<14, 3412>>, <<15, 3398>>,
       <<16, 3436>>, <<17, 3462>>, <<18, 3489>>, <<19, 3453>>, <<20, 3507>>,
       <<21, 3534>>, <<22, 3561>>, <<23, 3528>>, <<24, 3582>>, <<25, 3615>>,
       <<26, 3648>>, <<27, 3621>>, <<28, 3674>>, <<29, 3702>>, <<30, 3735>> >>

\* The sum of the first k terms of a sequence of integers.
RECURSIVE SumOver(_, _)
SumOver(terms, k) ==
    IF k = 0 THEN 0 ELSE SumOver(terms, k - 1) + terms[k]

\* linear_regression() -> (slope, intercept, confidence) on a series.
Regress(series) ==
    LET n      == Len(series)
        sum_x  == SumOver([i \in 1..n |-> series[i][1]], n)
        sum_y  == SumOver([i \in 1..n |-> series[i][2]], n)
        mean_x == TruncDiv(sum_x, n)
        mean_y == TruncDiv(sum_y, n)
        x_diff == [i \in 1..n |-> series[i][1] - mean_x]
        y_diff == [i \in 1..n |-> series[i][2] - mean_y]
        numerator         == SumOver([i \in 1..n |-> x_diff[i] * y_diff[i]], n)
        denominator       == SumOver([i \in 1..n |-> x_diff[i] * x_diff[i]], n)
        sum_squared_total == SumOver([i \in 1..n |-> y_diff[i] * y_diff[i]], n)
        slope     == IF denominator # 0 THEN TruncDiv(numerator, denominator) ELSE 0
        intercept == mean_y - slope * mean_x
        predicted == [i \in 1..n |-> slope * series[i][1] + intercept]
        error     == [i \in 1..n |-> series[i][2] - predicted[i]]
        sum_squared_errors == SumOver([i \in 1..n |-> error[i] * error[i]], n)
        r_squared ==
            IF sum_squared_total > 0
            THEN LET ratio == TruncDiv((sum_squared_total - sum_squared_errors) * 100,
                                       sum_squared_total)
                 IN  IF ratio > 0 THEN ratio ELSE 0
            ELSE 0
    IN  [slope |-> slope, intercept |-> intercept,
         confidence |-> IF r_squared < 100 THEN r_squared ELSE 100]

linear_regression == Regress(PRICE_HISTORY)

assumed_current_usd_price_per_eth == 3200

next_day == 31

\* (slope * next_day + intercept) as u64
predicted_usd_price_per_eth ==
    I64AsU64(linear_regression.slope * next_day + linear_regression.intercept)

\* The input the application writes to the guest's stdin: U256::from(x).abi_encode().
input_bytes(amount) == ToBeBytes32(U256From(amount))

\* <U256>::abi_decode(&input_bytes).unwrap().as_limbs()[0]
current_eth_amount_wei(stdin) == AsLimbs0(FromBeBytes32(stdin))

\* current_eth_amount_wei * predicted_usd_price_per_eth, all 128 bits of it.
FullProduct(wei) == MulNum(wei, predicted_usd_price_per_eth)

\* The u64 multiplication overflows: its result does not fit in 64 bits.
MulOverflows(wei) == ~IsZero(SubSeq(FullProduct(wei), 9, 16))

\* What the u64 multiplication leaves when overflow is not checked.
WrappingMul(wei) == SubSeq(FullProduct(wei), 1, 8)

predicted_price_wei(wei) ==
    IF assumed_current_usd_price_per_eth > 0
    THEN DivSmall(WrappingMul(wei), assumed_current_usd_price_per_eth).q
    ELSE wei

price_threshold ==
    assumed_current_usd_price_per_eth + (assumed_current_usd_price_per_eth \div 200)

\* Variant of signal: the comparison is made in the rescaled space, as the tests
\* describe it (predicted > current + current / 200).
signal_rescaled(wei) ==
    IF GtNum(Resize(predicted_price_wei(wei), 9), AddNum(wei, DivSmall(wei, 200).q, 0))
    THEN 1 ELSE 0

\* Variant of signal: the comparison inverted.
signal_inverted(wei) ==
    IF LtNum(predicted_usd_price_per_eth, NatToNum(price_threshold, 8)) THEN 1 ELSE 0

signal(wei) ==
    IF GtNum(predicted_usd_price_per_eth, NatToNum(price_threshold, 8)) THEN 1 ELSE 0

\* action_bytes: [0u8; 32] with action_bytes[31] = signal.
action_bytes(sig) == [i \in 1..32 |-> IF i = 32 THEN sig ELSE 0]

\* Variant of journal_data: price appended before confidence.
journal_data_swapped(sig, confidence, price) ==
    action_bytes(sig) \o ToBeBytes32(U256From(price)) \o ToBeBytes32(U256From(confidence))

\* The journal: action_bytes, then confidence and price as 32-byte big-endian.
journal_data(sig, confidence, price) ==
    action_bytes(sig) \o ToBeBytes32(U256From(confidence)) \o ToBeBytes32(U256From(price))

\* main() up to line 133: <<signal, confidence, predicted_price_wei>> for the stdin.
\* The guest is built for the zkVM in the release profile, where the u64
\* multiplication of line 124 wraps; the pattern 000f4b478d817e66 the application
\* searches for is the wrapped result for its default input.
GuestResult(stdin) ==
    LET wei == current_eth_amount_wei(stdin)
    IN  << signal(wei),
           NatToNum(linear_regression.confidence, 8),
           predicted_price_wei(wei) >>

\* main() from line 135: the journal for the three values.
GuestJournal(res) == journal_data(res[1], res[2], res[3])

\* ------------------------------------------------------------------------
\* The receiving side: apps/src/main.rs, run_trading_signal_mode
\* ------------------------------------------------------------------------

\* <(U256, U256, U256)>::abi_decode on a 96-byte slice: three 32-byte big-endian
\* words read positionally; every 96-byte slice decodes.
abi_decode(bytes) ==
    << FromBeBytes32(SubSeq(bytes, 1, 32)),
       FromBeBytes32(SubSeq(bytes, 33, 64)),
       FromBeBytes32(SubSeq(bytes, 65, 96)) >>

\* hex::encode(data): two hex digits per byte, high digit first.
hex_encode(data) ==
    [i \in 1..(2 * Len(data)) |->
        IF i % 2 = 1 THEN data[(i + 1) \div 2] \div 16 ELSE data[i \div 2] % 16]

\* str::contains / str::find(..).is_some() on hex digits.
Contains(hay, needle) ==
    \E i \in 0..(Len(hay) - Len(needle)) :
        \A j \in 1..Len(needle) : hay[i + j] = needle[j]

\* u64::from_str_radix(hex, 16) of a 16-digit string.
from_str_radix16(digits) ==
    [i \in 1..8 |-> digits[17 - 2 * i] * 16 + digits[18 - 2 * i]]

\* "6120"
PatternConfidence == <<6, 1, 2, 0>>

\* "000f4b478d817e66"
PatternPrice == <<0, 0, 0, 15, 4, 11, 4, 7, 8, 13, 8, 1, 7, 14, 6, 6>>

\* "0f4b478d817e6600"
price_hex == <<0, 15, 4, 11, 4, 7, 8, 13, 8, 1, 7, 14, 6, 6, 0, 0>>

\* 3735000000000000000u64
DefaultPrice == Sci(3735, 15)

\* 100_000_000_000_000_000: the price must exceed 0.1 ETH.
MinPrice == Sci(1, 17)

\* The length for which the offsets are tried.
WrappedLen == 256

\* The last start offset tried and the step between offsets.
LastOffset == 160

OffsetStep == 32

\* Variant of LooksReasonable: the bound on the confidence left out.
LooksReasonable_no_confidence(decoded_tuple) ==
    LET sig   == AsU8(AsLimbs0(decoded_tuple[1]))
        price == AsLimbs0(decoded_tuple[3])
    IN  /\ sig <= 1
        /\ GtNum(price, MinPrice)

\* "Validate that this looks like reasonable trading data".
LooksReasonable(decoded_tuple) ==
    LET sig        == AsU8(AsLimbs0(decoded_tuple[1]))
        confidence == AsLimbs0(decoded_tuple[2])
        price      == AsLimbs0(decoded_tuple[3])
    IN  /\ sig <= 1
        /\ LeNum(confidence, NatToNum(100, 8))
        /\ GtNum(price, MinPrice)

\* A start offset whose 96 bytes lie inside data and decode to a reasonable tuple.
AcceptedAt(data, start_offset) ==
    /\ start_offset + 96 <= Len(data)
    /\ LooksReasonable(abi_decode(SubSeq(data, start_offset + 1, start_offset + 96)))

\* The loop over start_offset in (0..=160).step_by(32), from start_offset on:
\* the first accepted offset, or -1 when the loop ends without one.
RECURSIVE ScanFrom(_, _)
ScanFrom(data, start_offset) ==
    IF start_offset > LastOffset THEN -1
    ELSE IF AcceptedAt(data, start_offset) THEN start_offset
    ELSE ScanFrom(data, start_offset + OffsetStep)

\* The start offsets at which the loop decodes a window of data: those of
\* (0..=160).step_by(32) with start_offset + 96 <= data.len(), up to the offset at
\* which the loop breaks (the first accepted one), and only when data.len() == 256.
TriedOffsets(data) ==
    IF Len(data) = WrappedLen
    THEN LET found == ScanFrom(data, 0)
         IN  { o \in 0..LastOffset :
                 /\ o % OffsetStep = 0
                 /\ o + 96 <= Len(data)
                 /\ found >= 0 => o <= found }
    ELSE {}

\* "Manual extraction from hex patterns we observed".
ManualExtraction(data) ==
    LET hex_str        == hex_encode(data)
        confidence_val == IF Contains(hex_str, PatternConfidence) THEN 97 ELSE 32
        price_val      == IF Contains(hex_str, PatternPrice)
                          THEN from_str_radix16(price_hex)
                          ELSE DefaultPrice
        signal_val     == IF confidence_val > 50 THEN 1 ELSE 0
    IN  << U256From(NatToNum(signal_val, 8)),
           U256From(NatToNum(confidence_val, 8)),
           U256From(price_val) >>

\* "Fallback for other sizes".
FallbackOutput ==
    << U256From(NatToNum(0, 8)), U256From(NatToNum(32, 8)), U256From(DefaultPrice) >>

\* let output: (U256, U256, U256) = if data.len() == 256 { ... } else { ... };
Output(data) ==
    IF Len(data) = WrappedLen
    THEN LET found == ScanFrom(data, 0)
         IN  IF found >= 0
             THEN abi_decode(SubSeq(data, found + 1, found + 96))
             ELSE ManualExtraction(data)
    ELSE FallbackOutput

\* The arguments of setSignal: (signal, U256::from(confidence), U256::from(predicted_price)).
SetSignalArgs(out) ==
    << AsU8(AsLimbs0(out[1])),
       U256From(AsLimbs0(out[2])),
       U256From(AsLimbs0(out[3])) >>

\* ------------------------------------------------------------------------
\* Inputs of the model
\* ------------------------------------------------------------------------

MaxU64 == [i \in 1..8 |-> 255]

\* x + 1 as a u64.
Succ64(x) == SubSeq(AddNum(x, NatToNum(1, 8), 0), 1, 8)

\* The largest amount whose product with the day-31 forecast fits in 64 bits.
LargestExact ==
    DivSmall(MaxU64, linear_regression.slope * next_day + linear_regression.intercept).q

\* --current-price values: the values of the tests, the default of the CLI,
\* the ends of the u64 range and the two sides of the 64-bit overflow.
Amounts ==
    { NatToNum(0, 8), NatToNum(1, 8), NatToNum(7, 8),
      LargestExact, Succ64(LargestExact),
      Sci(36, 17), Sci(37, 17), Sci(375, 16), Sci(5, 18), MaxU64 }

\* Words after the 96 journal bytes in an enveloped fulfillment: 0..MaxTrailerWords.
MaxTrailerWords == 2

\* Words of a fulfillment that does not carry the journal: up to MaxBlobWords.
MaxBlobWords == 9

WordOf(n) == ToBeBytes32(U256From(NatToNum(n, 8)))

\* A word whose low 64 bits are low and whose most significant byte is top.
HighWord(low, top) == ToBeBytes32(low \o Zeros(23) \o <<top>>)

JunkWord == [i \in 1..32 |-> 255]

\* The header of the envelope: an offset word, an identifier word, two pointer words.
EnvelopeHeader == WordOf(32) \o JunkWord \o WordOf(128) \o WordOf(96)

FillWords == { WordOf(0), JunkWord }

SamplePrice == Sci(418275, 13)

\* 96-byte regions a fulfillment may hold: canonical encodings on both sides of the
\* filter's bounds, and words that meet the bounds only in their low-order bytes.
PlantedTuples ==
    { journal_data(1, NatToNum(97, 8), SamplePrice),
      journal_data(0, NatToNum(100, 8), Succ64(MinPrice)),
      journal_data(1, NatToNum(100, 8), MinPrice),
      journal_data(1, NatToNum(101, 8), SamplePrice),
      journal_data(2, NatToNum(97, 8), SamplePrice),
      HighWord(NatToNum(1, 8), 32) \o WordOf(97) \o ToBeBytes32(U256From(SamplePrice)),
      WordOf(1) \o HighWord(NatToNum(97, 8), 1) \o ToBeBytes32(U256From(SamplePrice)),
      WordOf(1) \o WordOf(97) \o HighWord(SamplePrice, 1),
      WordOf(1) \o WordOf(97) \o HighWord(NatToNum(0, 8), 32),
      WordOf(256) \o WordOf(97) \o ToBeBytes32(U256From(SamplePrice)) }

\* A second region, placed before the first one.
EarlierTuple == journal_data(0, NatToNum(50, 8), Sci(2, 18))

RECURSIVE Repeat(_, _)
Repeat(w, n) == IF n = 0 THEN <<>> ELSE w \o Repeat(w, n - 1)

\* nw words of fill with region t at word offset o.
Planted(nw, fill, t, o) == Repeat(fill, o) \o t \o Repeat(fill, nw - o - 3)

\* The same with EarlierTuple at word offset o2, o2 + 3 <= o.
PlantedTwo(nw, fill, t, o, o2) ==
    Repeat(fill, o2) \o EarlierTuple \o Repeat(fill, o - o2 - 3) \o t
        \o Repeat(fill, nw - o - 3)

\* ------------------------------------------------------------------------
\* The state machine: one request, from the command line to setSignal
\* ------------------------------------------------------------------------

VARIABLES
    pc,             \* where the run is
    current_price,  \* args.current_price
    stdin,          \* the input bytes handed to the guest
    result,         \* the guest's <<signal, confidence, predicted_price_wei>>
    journal,        \* what the guest committed
    data,           \* fulfillment.fulfillmentData
    output,         \* the decoded tuple
    sent            \* the arguments of the setSignal call

vars == <<pc, current_price, stdin, result, journal, data, output, sent>>

Init ==
    /\ pc = "start"
    /\ current_price \in Amounts
    /\ stdin = <<>>
    /\ result = <<>>
    /\ journal = <<>>
    /\ data = <<>>
    /\ output = <<>>
    /\ sent = <<>>

\* The request is built with the encoded price as the guest's stdin and submitted.
Submit ==
    /\ pc = "start"
    /\ stdin' = input_bytes(current_price)
    /\ pc' = "proving"
    /\ UNCHANGED <<current_price, result, journal, data, output, sent>>

\* The guest runs: main() of guests/trading-signal.
GuestRun ==
    /\ pc = "proving"
    /\ result' = GuestResult(stdin)
    /\ journal' = GuestJournal(result')
    /\ pc' = "committed"
    /\ UNCHANGED <<current_price, stdin, data, output, sent>>

Fulfilled(blob) ==
    /\ pc = "committed"
    /\ data' = blob
    /\ pc' = "fulfilled"
    /\ UNCHANGED <<current_price, stdin, result, journal, output, sent>>

\* The fulfillment data is the journal itself.
FulfilBare == Fulfilled(journal)

\* The fulfillment data is the journal cut short.
FulfilTruncated == \E k \in 0..95 : Fulfilled(SubSeq(journal, 1, k))

\* The fulfillment data is the journal at offset 128 of an envelope.
FulfilEnveloped ==
    \E t \in 0..MaxTrailerWords :
        Fulfilled(EnvelopeHeader \o journal \o Repeat(WordOf(0), t))

\* The fulfillment data is some other sequence of words.
FulfilOther ==
    \E nw \in 3..MaxBlobWords, fill \in FillWords, t \in PlantedTuples :
        \E o \in 0..(nw - 3) :
            \/ Fulfilled(Planted(nw, fill, t, o))
            \/ \E o2 \in 0..(o - 3) : Fulfilled(PlantedTwo(nw, fill, t, o, o2))

\* Lines 150-213: the tuple is taken from the fulfillment data.
Decode ==
    /\ pc = "fulfilled"
    /\ output' = Output(data)
    /\ pc' = "decoded"
    /\ UNCHANGED <<current_price, stdin, result, journal, data, sent>>

\* Lines 219-243: the tuple is passed to the contract.
SetSignal ==
    /\ pc = "decoded"
    /\ sent' = SetSignalArgs(output)
    /\ pc' = "sent"
    /\ UNCHANGED <<current_price, stdin, result, journal, data, output>>

Next ==
    \/ Submit
    \/ GuestRun
    \/ FulfilBare
    \/ FulfilTruncated
    \/ FulfilEnveloped
    \/ FulfilOther
    \/ Decode
    \/ SetSignal

Spec == Init /\ [][Next]_vars

\* ------------------------------------------------------------------------
\* The codec alone: the journal's encoding and the positional decoding of the
\* tests (lines 34-37 of tests/trading-signal.rs) on results of every shape
\* ------------------------------------------------------------------------

ForecastSamples == Amounts \cup { MinPrice, Succ64(MinPrice), SamplePrice, DefaultPrice }

\* Results with decision in {0,1}, confidence <= 100 and a u64 forecast value.
Results == { <<d, NatToNum(c, 8), f>> : d \in 0..1, c \in 0..100, f \in ForecastSamples }

InitCodec ==
    /\ pc = "codec"
    /\ result \in Results
    /\ current_price = <<>>
    /\ stdin = <<>>
    /\ journal = <<>>
    /\ data = <<>>
    /\ output = <<>>
    /\ sent = <<>>

\* Lines 135-152 of the guest on the result.
Encode ==
    /\ pc = "codec"
    /\ journal' = GuestJournal(result)
    /\ pc' = "encoded"
    /\ UNCHANGED <<current_price, stdin, result, data, output, sent>>

\* <(U256, U256, U256)>::abi_decode(&session_info.journal.bytes)
DecodeJournal ==
    /\ pc = "encoded"
    /\ output' = abi_decode(journal)
    /\ pc' = "roundtrip"
    /\ UNCHANGED <<current_price, stdin, result, journal, data, sent>>

NextCodec == Encode \/ DecodeJournal

SpecCodec == InitCodec /\ [][NextCodec]_vars

\* ------------------------------------------------------------------------
\* Reading the journal as the tests do (tests/trading-signal.rs, lines 34-37)
\* ------------------------------------------------------------------------

\* The guest of this run has just committed its journal (no later step changes it).
Committed == pc = "committed"

JournalTuple == abi_decode(journal)

JournalSignal == AsU8(AsLimbs0(JournalTuple[1]))

JournalConfidence == AsLimbs0(JournalTuple[2])

JournalPrice == AsLimbs0(JournalTuple[3])

\* ------------------------------------------------------------------------
\* Claims about the guest
\* ------------------------------------------------------------------------

\* observedAmount * forecastNative / assumedCurrentNativePrice on unbounded integers.
ExactForecastValue(amount) ==
    DivSmall(MulNum(amount, predicted_usd_price_per_eth),
             assumed_current_usd_price_per_eth).q

\* C1: for every observedAmount the committed forecastValue is the exact product
\* observedAmount * forecastNative divided by 3200, and the 64-bit product of the
\* two never exceeds 64 bits.
Claim_C1 ==
    Committed =>
        /\ ~MulOverflows(current_price)
        /\ JournalTuple[3] = Resize(ExactForecastValue(current_price), 32)

\* C2: the committed decision is the same for every observedAmount: the decision of
\* this run equals the decision the guest computes for any other amount.
Thm_C2 ==
    Committed =>
        \A other \in Amounts : JournalSignal = GuestResult(input_bytes(other))[1]

\* A run on one of the large test amounts has committed the decision 1.
Wit_C2 == Committed /\ current_price = Sci(5, 18) /\ JournalSignal = 1

\* C3: on the embedded series the slope is positive, the day-31 forecast exceeds
\* 3200 + 3200/200 = 3216, the confidence is within 0..100, and the run on
\* 3600000000000000000 commits decision 1.
Thm_C3 ==
    /\ linear_regression.slope > 0
    /\ linear_regression.slope * 31 + linear_regression.intercept > 3200 + (3200 \div 200)
    /\ linear_regression.confidence \in 0..100
    /\ (Committed /\ current_price = Sci(36, 17)) => JournalSignal = 1

\* The run on 3600000000000000000 has committed a journal.
Wit_C3 == Committed /\ current_price = Sci(36, 17) /\ journal[32] = 1

\* current_eth + (current_eth / 200) of the test, all 65 bits of it (9 digits).
AmountSum(current_eth) == AddNum(current_eth, DivSmall(current_eth, 200).q, 0)

\* The u64 addition of the test overflows: with overflow checks the test panics.
AmountSumOverflows(current_eth) == AmountSum(current_eth)[9] # 0

\* let threshold = current_eth + (current_eth / 200): the u64 the addition leaves
\* (the sum modulo 2^64 when overflow is not checked).
AmountThreshold(current_eth) == SubSeq(AmountSum(current_eth), 1, 8)

\* let expected_signal = if predicted_price > threshold { 1 } else { 0 };
expected_signal(predicted_price, current_eth) ==
    IF GtNum(predicted_price, AmountThreshold(current_eth)) THEN 1 ELSE 0

\* C4: the committed decision is 1 exactly when the committed forecastValue is
\* strictly greater than observedAmount + observedAmount/200 (the exact sum), and
\* wherever the test's u64 sum does not overflow the decision is the test's
\* expected_signal.
Claim_C4 ==
    Committed =>
        /\ JournalSignal = 1 <=>
               GtNum(Resize(JournalPrice, 9), AmountSum(current_price))
        /\ ~AmountSumOverflows(current_price) =>
               JournalSignal = expected_signal(JournalPrice, current_price)

TestAmounts == { Sci(36, 17), Sci(37, 17), Sci(375, 16), Sci(5, 18) }

\* C5: for 3700000000000000000 the committed forecastValue lies strictly between
\* 1000000000000000000 and 18000000000000000000, and for each amount of the tests
\* it is greater than 0.
Claim_C5 ==
    Committed =>
        /\ current_price = Sci(37, 17) =>
               /\ GtNum(JournalPrice, Sci(1, 18))
               /\ LtNum(JournalPrice, Sci(18, 18))
        /\ current_price \in TestAmounts => ~IsZero(JournalPrice)

\* C6: the journal is 96 bytes: bytes 0..30 zero and byte 31 the decision (0 or 1),
\* bytes 32..63 the confidence and bytes 64..95 the forecastValue, each as a
\* 32-byte big-endian integer.
Thm_C6 ==
    Committed =>
        /\ Len(journal) = 96
        /\ \A i \in 1..31 : journal[i] = 0
        /\ journal[32] = result[1] /\ journal[32] \in {0, 1}
        /\ \A i \in 33..56 : journal[i] = 0
        /\ \A k \in 1..8 : journal[65 - k] = result[2][k]
        /\ \A i \in 65..88 : journal[i] = 0
        /\ \A k \in 1..8 : journal[97 - k] = result[3][k]

\* A journal whose forecastValue has several nonzero bytes has been committed.
Wit_C6 ==
    /\ Committed /\ current_price = Sci(37, 17)
    /\ journal[96] # 0 /\ journal[95] # 0 /\ journal[64] = 97

\* C7: reading the 96 encoded bytes positionally as three 32-byte big-endian
\* integers and taking decision, confidence and forecastValue from them returns
\* the encoded result.
Thm_C7 ==
    pc = "roundtrip" =>
        /\ Len(journal) = 96
        /\ <<AsU8(AsLimbs0(output[1])), AsLimbs0(output[2]), AsLimbs0(output[3])>> = result
        /\ output = <<U256From(NatToNum(result[1], 8)), U256From(result[2]),
                      U256From(result[3])>>

\* A result with decision 0, confidence 100 and the largest forecastValue has made
\* the round trip.
Wit_C7 ==
    /\ pc = "roundtrip"
    /\ result = <<0, NatToNum(100, 8), MaxU64>>
    /\ AsLimbs0(output[3]) = MaxU64

\* ------------------------------------------------------------------------
\* Claims about the receiving side
\* ------------------------------------------------------------------------

\* The 32-byte-aligned offsets at which 96 bytes lie inside d.
AlignedOffsets(d) == { o \in 0..Len(d) : o % 32 = 0 /\ o + 96 <= Len(d) }

\* C8: when no 32-byte-aligned offset of the fulfillment data yields an accepted
\* candidate, no triple is produced and none is passed to setSignal: a setSignal
\* call on data of at least 96 bytes implies an accepted offset.
Claim_C8 ==
    (pc = "sent" /\ Len(data) >= 96) =>
        \E o \in AlignedOffsets(data) : AcceptedAt(data, o)

\* C9: fulfillment data shorter than 96 bytes yields no result triple.
Claim_C9 == pc \in {"decoded", "sent"} => Len(data) >= 96

\* The 96 bytes at offset 128 of d are the encoding of a result r (decision 0 or 1,
\* confidence and forecastValue of 64 bits) that passes the plausibility filter.
EncodedAt128(d) ==
    LET w == SubSeq(d, 129, 224)
        t == abi_decode(w)
    IN  /\ AsU8(AsLimbs0(t[1])) \in {0, 1}
        /\ w = journal_data(AsU8(AsLimbs0(t[1])), AsLimbs0(t[2]), AsLimbs0(t[3]))
        /\ LooksReasonable(t)

\* C10: for data of any length >= 224 that holds encode(r) at offset 128, r passing
\* the filter and no earlier aligned offset passing it, the decoded tuple is r.
Claim_C10 ==
    ( /\ pc = "decoded"
      /\ Len(data) >= 224
      /\ EncodedAt128(data)
      /\ \A o \in AlignedOffsets(data) : o < 128 => ~AcceptedAt(data, o) )
    => output = abi_decode(SubSeq(data, 129, 224))

\* C11: every triple passed to setSignal, whatever the fulfillment data and the
\* branch that produced it (scan, manual extraction, other sizes), has decision
\* 0 or 1 and, as a 256-bit integer, confidence <= 100.
Thm_C11 ==
    pc = "sent" =>
        /\ sent[1] \in {0, 1}
        /\ LeNum(sent[2], U256From(NatToNum(100, 8)))

\* The scan accepted a window whose confidence word exceeds 100 as a 256-bit
\* integer, and the triple was passed to setSignal.
Wit_C11 ==
    /\ pc = "sent"
    /\ Len(data) = WrappedLen
    /\ ScanFrom(data, 0) >= 0
    /\ GtNum(output[2], U256From(NatToNum(100, 8)))
    /\ sent[2] = U256From(NatToNum(97, 8))

\* The bounds of the filter on the full 32-byte fields of a 96-byte window w:
\* first field 0 or 1 with bytes 0..30 zero, second field <= 100 and third field
\* above the floor, each as a 256-bit big-endian integer.
BoundsOnFullFields(w) ==
    LET t == abi_decode(w)
    IN  /\ \A i \in 1..31 : w[i] = 0
        /\ w[32] \in {0, 1}
        /\ LeNum(t[2], U256From(NatToNum(100, 8)))
        /\ GtNum(t[3], U256From(MinPrice))

\* C12: a window is accepted only if its three fields meet the bounds as full
\* 256-bit integers; a window that meets them only in its low-order byte or
\* low-order 64 bits is never accepted.
Claim_C12 ==
    (pc = "decoded" /\ Len(data) = WrappedLen /\ ScanFrom(data, 0) >= 0) =>
        BoundsOnFullFields(SubSeq(data, ScanFrom(data, 0) + 1, ScanFrom(data, 0) + 96))

\* The 32-byte-aligned offsets of d whose window passes the filter.
AcceptedOffsets(d) == { o \in AlignedOffsets(d) : AcceptedAt(d, o) }

\* The smallest of a nonempty set of offsets.
Smallest(S) == CHOOSE o \in S : \A p \in S : o <= p

\* C13: the scan tries the offsets 0, 32, 64, ... in increasing order up to
\* Len(data) - 96 inclusive (up to the first accepted one, when there is one), no
\* window extends past the end of the data, and whenever some offset is accepted
\* the decoded tuple is the one at the smallest accepted offset.
Claim_C13 ==
    pc = "decoded" =>
        /\ TriedOffsets(data) =
               { o \in AlignedOffsets(data) :
                   AcceptedOffsets(data) # {} => o <= Smallest(AcceptedOffsets(data)) }
        /\ \A o \in TriedOffsets(data) : o + 96 <= Len(data)
        /\ AcceptedOffsets(data) # {} =>
               output = abi_decode(SubSeq(data, Smallest(AcceptedOffsets(data)) + 1,
                                          Smallest(AcceptedOffsets(data)) + 96))

====
